---- MODULE Spec2Model ----
(***************************************************************************)
(* A model of echopype's combine_echodata (echodata/combine.py): one call  *)
(* of the function, run step by step over a list of EchoData records.      *)
(*                                                                         *)
(* A dataset (xarray.Dataset) is abstracted to what combine reads and      *)
(* writes: its global attrs mapping, whether it carries the ping_time      *)
(* coordinate and that coordinate's values, and the values of its data     *)
(* along the concatenation dimension.  Variable-level attrs, dtypes and    *)
(* the other dimensions are left out.                                      *)
(*                                                                         *)
(* Python's None is the empty tuple for optional structured values         *)
(* (None == <<>>, a present value x is <<x>>) and the string "None" for    *)
(* optional strings.                                                       *)
(***************************************************************************)
EXTENDS Integers, Sequences, FiniteSets, TLC

VARIABLES
    echodatas,      \* the input list (never assigned by combine)
    combine_attrs,  \* the attrs policy selector passed by the caller
    pc,             \* position in combine_echodata
    i,              \* index of the record the validation loop is at
    sonar_model,    \* local: the model tag seen so far
    gi,             \* index in group_map of the group the loop is at
    result,         \* the EchoData under construction: group -> option
    old_ping_time,  \* local: ping time before reversal correction
    new_ping_time,  \* local: ping time after reversal correction
    old_attrs,      \* local: group -> list of attrs before combination
    warned,         \* the warnings emitted so far: the groups they were for
    error,          \* the exception raised, if any
    returned        \* what the call returned, if it has

vars == <<echodatas, combine_attrs, pc, i, sonar_model, gi, result,
          old_ping_time, new_ping_time, old_attrs, warned, error, returned>>

----------------------------------------------------------------------------
(* Bounds of the model *)

\* the longest input list of the families that vary few fields per record
MaxRecs == 3
\* the longest ping_time coordinate of one input dataset
MaxLen == 3
\* timestamps are drawn from 1..MaxTime
MaxTime == 3

----------------------------------------------------------------------------
(* Values *)

None == <<>>
Some(x) == <<x>>
NoneStr == "None"

\* EchoData.group_map, in order
group_map == <<"top", "environment", "platform", "provenance", "sonar", "beam", "vendor">>
GroupNames == {group_map[k] : k \in 1..Len(group_map)}

SonarModels == {"EK60", "EK80"}

\* the five values of combine_attrs the docstring defines
Policies == {"override", "drop", "identical", "no_conflicts", "overwrite_conflicts"}

AttrKeys == {"a", "b"}
AttrVals == {1, 2}
\* every attrs mapping over AttrKeys
Mappings == UNION {[D -> AttrVals] : D \in SUBSET AttrKeys}
EmptyAttrs == [k \in {} |-> 0]

Times == 1..MaxTime
----------------------------------------------------------------------------
(* Datasets and records *)

\* an xarray.Dataset as combine sees it
Dataset(attrs, carries_time, ping_time, data) ==
    [attrs |-> attrs, carries_time |-> carries_time, ping_time |-> ping_time, data |-> data]

\* EchoData(): every group None
EmptyEchoData == [g \in GroupNames |-> None]

\* an input EchoData
EchoData(model, source_file, converted_raw_path, groups) ==
    [sonar_model |-> model, source_file |-> source_file,
     converted_raw_path |-> converted_raw_path, groups |-> groups]

\* getattr(echodata, group)
GetGroup(echodata, group) == echodata.groups[group]

----------------------------------------------------------------------------
(* union_attrs: dict.update over the datasets, later datasets win *)

RECURSIVE UnionFrom(_, _, _)
UnionFrom(datasets, k, total_attrs) ==
    IF k > Len(datasets) THEN total_attrs
    ELSE UnionFrom(datasets, k + 1, datasets[k].attrs @@ total_attrs)

\* union_attrs in which the earlier datasets win
RECURSIVE UnionFirstWinsFrom(_, _, _)
UnionFirstWinsFrom(datasets, k, total_attrs) ==
    IF k > Len(datasets) THEN total_attrs
    ELSE UnionFirstWinsFrom(datasets, k + 1, total_attrs @@ datasets[k].attrs)

union_attrs_first_wins(datasets) == UnionFirstWinsFrom(datasets, 1, EmptyAttrs)

union_attrs(datasets) == UnionFrom(datasets, 1, EmptyAttrs)

----------------------------------------------------------------------------
(* The attrs merge xr.combine_nested performs for its combine_attrs        *)
(* argument (xarray's merge_attrs): a record [err, attrs], err = "" when   *)
(* it succeeds.                                                            *)

\* xarray's compat_dict_union precondition: no shared key with two values
Compatible(first, second) ==
    \A k \in (DOMAIN first) \cap (DOMAIN second) : first[k] = second[k]

RECURSIVE NoConflictsFrom(_, _, _)
NoConflictsFrom(attrsList, k, acc) ==
    IF k > Len(attrsList) THEN [err |-> "", attrs |-> acc]
    ELSE IF ~Compatible(acc, attrsList[k])
         THEN [err |-> "MergeError", attrs |-> EmptyAttrs]
         ELSE NoConflictsFrom(attrsList, k + 1, acc @@ attrsList[k])

RECURSIVE IdenticalFrom(_, _, _)
IdenticalFrom(attrsList, k, acc) ==
    IF k > Len(attrsList) THEN [err |-> "", attrs |-> acc]
    ELSE IF attrsList[k] # acc
         THEN [err |-> "MergeError", attrs |-> EmptyAttrs]
         ELSE IdenticalFrom(attrsList, k + 1, acc)

merge_attrs(attrsList, policy) ==
    CASE policy = "drop" -> [err |-> "", attrs |-> EmptyAttrs]
      [] policy = "override" -> [err |-> "", attrs |-> attrsList[1]]
      [] policy = "no_conflicts" -> NoConflictsFrom(attrsList, 2, attrsList[1])
      [] policy = "identical" -> IdenticalFrom(attrsList, 2, attrsList[1])
      [] OTHER -> [err |-> "ValueError", attrs |-> EmptyAttrs]

----------------------------------------------------------------------------
(* Concatenation along the group's concatenation dimension *)

\* ConcatField that puts each dataset before the ones already concatenated
RECURSIVE ConcatFieldReversed(_, _, _)
ConcatFieldReversed(datasets, field, k) ==
    IF k > Len(datasets) THEN <<>>
    ELSE ConcatFieldReversed(datasets, field, k + 1) \o datasets[k][field]

RECURSIVE ConcatField(_, _, _)
ConcatField(datasets, field, k) ==
    IF k > Len(datasets) THEN <<>>
    ELSE datasets[k][field] \o ConcatField(datasets, field, k + 1)

\* NestedPolicy that leaves the caller's selector out: xarray's default
NestedPolicyIgnored(policy) == "override"

\* the attrs xr.combine_nested is asked to produce: "drop" stands in for
\* "overwrite_conflicts", which xarray does not know
NestedPolicy(policy) == IF policy = "overwrite_conflicts" THEN "drop" ELSE policy

\* xr.combine_nested(group_datasets, [concat_dim], ...) when the attrs merge
\* succeeds, followed by combined_group.attrs.update(union_attrs(...))
CombinedAttrs(group_datasets, policy) ==
    LET merged == merge_attrs([k \in 1..Len(group_datasets) |-> group_datasets[k].attrs],
                              NestedPolicy(policy)).attrs
    IN  IF policy = "overwrite_conflicts"
        THEN union_attrs(group_datasets) @@ merged
        ELSE merged

CombineNested(group_datasets, policy) ==
    Dataset(CombinedAttrs(group_datasets, policy),
            group_datasets[1].carries_time,
            ConcatField(group_datasets, "ping_time", 1),
            ConcatField(group_datasets, "data", 1))

\* the exception xr.combine_nested raises for these attrs, "" when none
CombineNestedError(group_datasets, policy) ==
    merge_attrs([k \in 1..Len(group_datasets) |-> group_datasets[k].attrs],
                NestedPolicy(policy)).err

----------------------------------------------------------------------------
(* qc.exist_reversed_time and qc.coerce_increasing_time *)

\* true iff some element is less than or equal to its predecessor
exist_reversed_time(ping_time) ==
    \E k \in 2..Len(ping_time) : ping_time[k] <= ping_time[k - 1]

\* CoerceFrom whose reversal test lets an element equal to its predecessor pass
RECURSIVE CoerceFromDecreasingOnly(_, _, _, _)
CoerceFromDecreasingOnly(ping_time, k, offset, out) ==
    IF k > Len(ping_time) THEN out
    ELSE IF k > 1 /\ ping_time[k] + offset < out[k - 1]
         THEN LET grown == offset + (out[k - 1] - (ping_time[k] + offset) + 1)
              IN  CoerceFromDecreasingOnly(ping_time, k + 1, grown,
                                           Append(out, ping_time[k] + grown))
         ELSE CoerceFromDecreasingOnly(ping_time, k + 1, offset,
                                       Append(out, ping_time[k] + offset))

\* CoerceFrom whose offset grows by the distance from the element without
\* the offset in force
RECURSIVE CoerceFromCumulative(_, _, _, _)
CoerceFromCumulative(ping_time, k, offset, out) ==
    IF k > Len(ping_time) THEN out
    ELSE IF k > 1 /\ ping_time[k] + offset <= out[k - 1]
         THEN LET grown == offset + (out[k - 1] - ping_time[k] + 1)
              IN  CoerceFromCumulative(ping_time, k + 1, grown,
                                       Append(out, ping_time[k] + grown))
         ELSE CoerceFromCumulative(ping_time, k + 1, offset,
                                   Append(out, ping_time[k] + offset))

\* one left-to-right pass with a running offset; at a reversal the offset
\* grows by (previous corrected value - current value under the offset in
\* force + one increment), so that the corrected value is one increment
\* above the previous corrected value
RECURSIVE CoerceFrom(_, _, _, _)
CoerceFrom(ping_time, k, offset, out) ==
    IF k > Len(ping_time) THEN out
    ELSE IF k > 1 /\ ping_time[k] + offset <= out[k - 1]
         THEN LET grown == offset + (out[k - 1] - (ping_time[k] + offset) + 1)
              IN  CoerceFrom(ping_time, k + 1, grown, Append(out, ping_time[k] + grown))
         ELSE CoerceFrom(ping_time, k + 1, offset, Append(out, ping_time[k] + offset))

coerce_increasing_time(ping_time) == CoerceFrom(ping_time, 1, 0, <<>>)

----------------------------------------------------------------------------
(* assemble_combined_provenance *)

ECHOPYPE_VERSION == "version"

\* the provenance dataset: src_filenames over the "file" dimension, the
\* conversion attrs, no ping_time coordinate, and the variables added after
\* the group loop
assemble_combined_provenance(input_paths) ==
    [src_filenames |-> input_paths,
     attrs |-> [conversion_software_name |-> "echopype",
                conversion_software_version |-> ECHOPYPE_VERSION,
                conversion_time |-> "utcnow"],
     carries_time |-> FALSE,
     ping_time |-> <<>>,
     old_ping_time |-> None,
     group_attrs |-> EmptyAttrs]

\* InputPath that never reads source_file
InputPathConverted(echodata) ==
    echodata.converted_raw_path

\* the origin identifier of one record
InputPath(echodata) ==
    IF echodata.source_file # NoneStr THEN echodata.source_file
    ELSE echodata.converted_raw_path

InputPaths(records) == [k \in 1..Len(records) |-> InputPath(records[k])]

----------------------------------------------------------------------------
(* combine_echodata, step by step *)

NoError == [type |-> "", message |-> ""]
MsgNoneModel == "all EchoData objects must have non-None sonar_model values"
MsgSameModel == "all EchoData objects must have the same sonar_model value"
MsgCombineAttrs == "Unrecognised value for combine_attrs"
MsgMerge == "combine_attrs"

\* ValidationMessage with the two messages exchanged
ValidationMessageSwapped(model) ==
    IF model = NoneStr THEN MsgSameModel ELSE MsgNoneModel

\* the message of the ValueError the validation loop raises at a record
\* whose tag is model
ValidationMessage(model) ==
    IF model = NoneStr THEN MsgNoneModel ELSE MsgSameModel

\* the ValueError the validation loop raises at the record at position
\* (the loop `for echodata in echodatas` keeps no index, and the messages
\* are literals)
ValidationError(position, model) ==
    [type |-> "ValueError", message |-> ValidationMessage(model)]

\* ValidationFails without the comparison with the tag seen before
ValidationFailsNullOnly(model, seen) ==
    model = NoneStr

\* whether the validation loop raises at a record tagged model, having seen
\* the tag seen (None when it has seen no record yet)
ValidationFails(model, seen) ==
    \/ model = NoneStr
    \/ seen # NoneStr /\ model # seen

\* the group the loop is at
group == group_map[gi]

\* the datasets of the records that have the group, in input order
GroupDatasets(records, g) ==
    LET present == SelectSeq(records, LAMBDA echodata : GetGroup(echodata, g) # None)
    IN  [k \in 1..Len(present) |-> GetGroup(present[k], g)[1]]

\* the serial loop over group_map: on to the next group, or past the loop
Advance ==
    IF gi = Len(group_map)
    THEN pc' = "finalize" /\ gi' = gi
    ELSE pc' = "groups" /\ gi' = gi + 1

\* ReturnEmpty without the early return: the group loop reads echodatas[0]
ReturnEmptyMissing ==
    /\ pc = "start"
    /\ Len(echodatas) = 0
    /\ result' = EmptyEchoData
    /\ error' = [type |-> "IndexError", message |-> "list index out of range"]
    /\ pc' = "raised"
    /\ UNCHANGED <<echodatas, combine_attrs, i, sonar_model, gi, old_ping_time,
                   new_ping_time, old_attrs, warned, returned>>

\* lines 106-108: an empty list returns the empty EchoData at once
ReturnEmpty ==
    /\ pc = "start"
    /\ Len(echodatas) = 0
    /\ result' = EmptyEchoData
    /\ returned' = Some(EmptyEchoData)
    /\ pc' = "done"
    /\ UNCHANGED <<echodatas, combine_attrs, i, sonar_model, gi, old_ping_time,
                   new_ping_time, old_attrs, warned, error>>

\* lines 106-110: a non-empty list enters the validation loop
BeginValidation ==
    /\ pc = "start"
    /\ Len(echodatas) # 0
    /\ result' = EmptyEchoData
    /\ sonar_model' = NoneStr
    /\ i' = 1
    /\ pc' = "validate"
    /\ UNCHANGED <<echodatas, combine_attrs, gi, old_ping_time, new_ping_time,
                   old_attrs, warned, error, returned>>

\* lines 111-121: the loop raises at record i
ValidateRaise ==
    /\ pc = "validate"
    /\ ValidationFails(echodatas[i].sonar_model, sonar_model)
    /\ error' = ValidationError(i, echodatas[i].sonar_model)
    /\ pc' = "raised"
    /\ UNCHANGED <<echodatas, combine_attrs, i, sonar_model, gi, result, old_ping_time,
                   new_ping_time, old_attrs, warned, returned>>

\* lines 111-128: record i passes; after the last record the locals of the
\* group loop are set
ValidatePass ==
    /\ pc = "validate"
    /\ ~ValidationFails(echodatas[i].sonar_model, sonar_model)
    /\ sonar_model' = echodatas[i].sonar_model
    /\ IF i = Len(echodatas)
       THEN /\ pc' = "groups"
            /\ i' = i
            /\ gi' = 1
            /\ old_ping_time' = None
            /\ new_ping_time' = None
            /\ old_attrs' = EmptyAttrs
       ELSE /\ pc' = "validate"
            /\ i' = i + 1
            /\ UNCHANGED <<gi, old_ping_time, new_ping_time, old_attrs>>
    /\ UNCHANGED <<echodatas, combine_attrs, result, warned, error, returned>>

\* CopyFromFirst that takes the group of the last record
CopyFromLast ==
    /\ pc = "groups"
    /\ group \in {"top", "sonar"}
    /\ result' = [result EXCEPT ![group] = GetGroup(echodatas[Len(echodatas)], group)]
    /\ Advance
    /\ UNCHANGED <<echodatas, combine_attrs, i, sonar_model, old_ping_time,
                   new_ping_time, old_attrs, warned, error, returned>>

\* lines 131-132, 204-207: top and sonar are taken from the first record
CopyFromFirst ==
    /\ pc = "groups"
    /\ group \in {"top", "sonar"}
    /\ result' = [result EXCEPT ![group] = GetGroup(echodatas[1], group)]
    /\ Advance
    /\ UNCHANGED <<echodatas, combine_attrs, i, sonar_model, old_ping_time,
                   new_ping_time, old_attrs, warned, error, returned>>

\* lines 133-141, 204-207: the provenance group is built afresh
BuildProvenance ==
    /\ pc = "groups"
    /\ group = "provenance"
    /\ result' = [result EXCEPT
                    ![group] = Some(assemble_combined_provenance(InputPaths(echodatas)))]
    /\ Advance
    /\ UNCHANGED <<echodatas, combine_attrs, i, sonar_model, old_ping_time,
                   new_ping_time, old_attrs, warned, error, returned>>

\* lines 143-150: no record has the group
SkipGroup ==
    /\ pc = "groups"
    /\ group \notin {"top", "sonar", "provenance"}
    /\ Len(GroupDatasets(echodatas, group)) = 0
    /\ result' = [result EXCEPT ![group] = None]
    /\ Advance
    /\ UNCHANGED <<echodatas, combine_attrs, i, sonar_model, old_ping_time,
                   new_ping_time, old_attrs, warned, error, returned>>

\* ConcatRaise that raises only after the reversal test of the group, so that
\* the warning of the group's own reversal comes before the error
ConcatRaiseAfterWarning ==
    /\ pc = "groups"
    /\ group \notin {"top", "sonar", "provenance"}
    /\ Len(GroupDatasets(echodatas, group)) # 0
    /\ LET group_datasets == GroupDatasets(echodatas, group)
           raised == CombineNestedError(group_datasets, combine_attrs)
       IN  /\ raised # ""
           /\ error' = [type |-> raised,
                        message |-> IF raised = "ValueError" THEN MsgCombineAttrs
                                    ELSE MsgMerge]
           /\ warned' = IF /\ group_datasets[1].carries_time
                           /\ exist_reversed_time(ConcatField(group_datasets, "ping_time", 1))
                           /\ old_ping_time = None
                        THEN Append(warned, group)
                        ELSE warned
    /\ pc' = "raised"
    /\ UNCHANGED <<echodatas, combine_attrs, i, sonar_model, gi, result, old_ping_time,
                   new_ping_time, old_attrs, returned>>

\* lines 158-166: xr.combine_nested raises
ConcatRaise ==
    /\ pc = "groups"
    /\ group \notin {"top", "sonar", "provenance"}
    /\ Len(GroupDatasets(echodatas, group)) # 0
    /\ LET raised == CombineNestedError(GroupDatasets(echodatas, group), combine_attrs)
       IN  /\ raised # ""
           /\ error' = [type |-> raised,
                        message |-> IF raised = "ValueError" THEN MsgCombineAttrs
                                    ELSE MsgMerge]
    /\ pc' = "raised"
    /\ UNCHANGED <<echodatas, combine_attrs, i, sonar_model, gi, result, old_ping_time,
                   new_ping_time, old_attrs, warned, returned>>

\* RecordAttrs that records the attrs of a single dataset too
RecordAttrsAlways(attrs, g, group_datasets) ==
    (g :> [k \in 1..Len(group_datasets) |-> group_datasets[k].attrs]) @@ attrs

\* lines 169-172: the attrs of the datasets before combination are recorded
\* when more than one dataset is combined
RecordAttrs(attrs, g, group_datasets) ==
    IF Len(group_datasets) > 1
    THEN (g :> [k \in 1..Len(group_datasets) |-> group_datasets[k].attrs]) @@ attrs
    ELSE attrs

\* lines 190-192: the reversal test on the concatenated group
Reversed(combined_group) ==
    combined_group.carries_time /\ exist_reversed_time(combined_group.ping_time)

\* FirstReversal without the test that no correction was computed before
FirstReversalEvery(combined_group, old) ==
    Reversed(combined_group)

\* lines 190-193: the warning is due, and the correction is computed
FirstReversal(combined_group, old) ==
    Reversed(combined_group) /\ old = None

\* TimeHandled that repairs every reversed group on its own
TimeHandledRepairsAgain(combined_group, old, new) ==
    IF ~Reversed(combined_group) THEN combined_group
    ELSE [combined_group EXCEPT !.ping_time = coerce_increasing_time(@)]

\* lines 190-202: the combined group after the ping_time reversal handling
TimeHandled(combined_group, old, new) ==
    IF ~Reversed(combined_group) THEN combined_group
    ELSE IF old = None
         THEN [combined_group EXCEPT !.ping_time = coerce_increasing_time(@)]
         ELSE [combined_group EXCEPT !.ping_time = new[1]]

\* lines 143-207: the group is concatenated, its attrs recorded, its
\* ping_time repaired, and the result stored
ConcatGroup ==
    /\ pc = "groups"
    /\ group \notin {"top", "sonar", "provenance"}
    /\ Len(GroupDatasets(echodatas, group)) # 0
    /\ CombineNestedError(GroupDatasets(echodatas, group), combine_attrs) = ""
    /\ LET group_datasets == GroupDatasets(echodatas, group)
           combined_group == CombineNested(group_datasets, combine_attrs)
           first_reversal == FirstReversal(combined_group, old_ping_time)
           fixed == TimeHandled(combined_group, old_ping_time, new_ping_time)
       IN  /\ old_attrs' = RecordAttrs(old_attrs, group, group_datasets)
           /\ warned' = IF first_reversal THEN Append(warned, group) ELSE warned
           /\ old_ping_time' = IF first_reversal THEN Some(combined_group.ping_time)
                               ELSE old_ping_time
           /\ new_ping_time' = IF first_reversal THEN Some(fixed.ping_time)
                               ELSE new_ping_time
           /\ result' = [result EXCEPT ![group] = Some(fixed)]
    /\ Advance
    /\ UNCHANGED <<echodatas, combine_attrs, i, sonar_model, error, returned>>

\* FinalProvenance without the ping time before correction
FinalProvenanceWithoutOld(provenance, old, attrs) ==
    [provenance EXCEPT
        !.group_attrs = [name \in {g \o "_attrs" : g \in DOMAIN attrs} |->
                            attrs[CHOOSE g \in DOMAIN attrs : g \o "_attrs" = name]]]

\* lines 209-216: the provenance group with the ping time before correction
\* and the attrs before combination added; old_ping_time is an array over
\* its own ping_time, so that the assignment of line 211 gives the
\* provenance dataset that ping_time coordinate too
FinalProvenance(provenance, old, attrs) ==
    [provenance EXCEPT
        !.old_ping_time = IF old # None THEN old ELSE @,
        !.carries_time = IF old # None THEN TRUE ELSE @,
        !.ping_time = IF old # None THEN old[1] ELSE @,
        !.group_attrs = [name \in {g \o "_attrs" : g \in DOMAIN attrs} |->
                            attrs[CHOOSE g \in DOMAIN attrs : g \o "_attrs" = name]]]

\* lines 209-218
Finalize ==
    /\ pc = "finalize"
    /\ result' = [result EXCEPT
                    !["provenance"] = Some(FinalProvenance(@[1], old_ping_time, old_attrs))]
    /\ returned' = Some(result')
    /\ pc' = "done"
    /\ UNCHANGED <<echodatas, combine_attrs, i, sonar_model, gi, old_ping_time,
                   new_ping_time, old_attrs, warned, error>>

Next ==
    \/ ReturnEmpty
    \/ BeginValidation
    \/ ValidateRaise
    \/ ValidatePass
    \/ CopyFromFirst
    \/ BuildProvenance
    \/ SkipGroup
    \/ ConcatRaise
    \/ ConcatGroup
    \/ Finalize

----------------------------------------------------------------------------
(* The calls the model runs: combine_echodata(echodatas, combine_attrs)    *)

\* a selector outside the five defined values
UnknownPolicy == "bogus"
Selectors == Policies \cup {UnknownPolicy}

DefaultAttrs == "a" :> 1
\* the ping times of the record at position k when they follow the record before
DefaultTime(k) == <<2 * k - 1, 2 * k>>
\* the samples of the record at position k: n values that name k
Samples(k, n) == [j \in 1..n |-> 10 * k + j]

\* one group of an input record, from an option [attrs, ping_time]
TimeGroup(k, option) ==
    IF option = None THEN None
    ELSE Some(Dataset(option[1].attrs, TRUE, option[1].ping_time,
                      Samples(k, Len(option[1].ping_time))))

PlainGroup(k, option) ==
    IF option = None THEN None
    ELSE Some(Dataset(option[1].attrs, FALSE, <<>>, Samples(k, 1)))

\* the input record at position k described by the choice c; its top and
\* sonar groups carry ping_time when the choice gives them ping times
Record(k, c) ==
    EchoData(c.sonar_model, c.source_file, c.converted_raw_path,
             [g \in GroupNames |->
                CASE g = "top" -> Some(Dataset("a" :> k, c.top # <<>>, c.top, <<>>))
                  [] g = "sonar" -> Some(Dataset("b" :> k, c.sonar # <<>>, c.sonar, <<>>))
                  [] g = "provenance" ->
                        Some([assemble_combined_provenance(<<c.source_file>>) EXCEPT
                                !.attrs.conversion_time = "earlier"])
                  [] g = "environment" -> TimeGroup(k, c.environment)
                  [] g = "platform" -> TimeGroup(k, c.platform)
                  [] g = "beam" -> TimeGroup(k, c.beam)
                  [] g = "vendor" -> PlainGroup(k, c.vendor)])

Call(n, choices, selector) ==
    [echodatas |-> [k \in 1..n |-> Record(k, choices[k])], combine_attrs |-> selector]

Part(attrs, ping_time) == Some([attrs |-> attrs, ping_time |-> ping_time])

\* a record of position k with every group, or with top, sonar and provenance only
FullChoice(k, model, source_file, converted_raw_path) ==
    [sonar_model |-> model, source_file |-> source_file,
     converted_raw_path |-> converted_raw_path,
     top |-> <<>>, sonar |-> <<>>,
     environment |-> Part(DefaultAttrs, DefaultTime(k)),
     platform |-> Part(DefaultAttrs, DefaultTime(k)),
     beam |-> Part(DefaultAttrs, DefaultTime(k)),
     vendor |-> Part(DefaultAttrs, <<>>)]

BareChoice(model) ==
    [sonar_model |-> model, source_file |-> "a.raw", converted_raw_path |-> "a.nc",
     top |-> <<>>, sonar |-> <<>>,
     environment |-> None, platform |-> None, beam |-> None, vendor |-> None]

\* the state at the call combine_echodata(call.echodatas, call.combine_attrs)
Enter(call) ==
    /\ echodatas = call.echodatas
    /\ combine_attrs = call.combine_attrs
    /\ pc = "start"
    /\ i = 0
    /\ sonar_model = NoneStr
    /\ gi = 0
    /\ result = EmptyEchoData
    /\ old_ping_time = None
    /\ new_ping_time = None
    /\ old_attrs = EmptyAttrs
    /\ warned = <<>>
    /\ error = NoError
    /\ returned = None

\* lists of up to MaxRecs records that differ in their model tag and in
\* having the concatenated groups, under every selector
ModelCalls ==
    \E n \in 0..MaxRecs :
      \E model \in [1..n -> SonarModels \cup {NoneStr}], bare \in [1..n -> BOOLEAN],
         selector \in Selectors :
        Enter(Call(n, [k \in 1..n |-> IF bare[k] THEN BareChoice(model[k])
                                       ELSE FullChoice(k, model[k], "a.raw", "a.nc")],
                   selector))

\* lists of up to MaxRecs records that differ in their origin
OriginCalls ==
    \E n \in 1..MaxRecs :
      \E source_file \in [1..n -> {NoneStr, "a.raw", "b.raw"}],
         converted \in [1..n -> {"a.nc", "b.nc"}] :
        Enter(Call(n, [k \in 1..n |-> FullChoice(k, "EK60", source_file[k], converted[k])],
                   "override"))

\* lists of up to MaxRecs records that differ in the attrs of the
\* environment group, under the selectors that read the attrs of the
\* records after the first
AttrsCalls ==
    \E n \in 1..MaxRecs :
      \E environment \in [1..n -> Mappings],
         selector \in {"identical", "no_conflicts", "overwrite_conflicts"} :
        Enter(Call(n, [k \in 1..n |->
                          [FullChoice(k, "EK60", "a.raw", "a.nc") EXCEPT
                              !.environment = Part(environment[k], DefaultTime(k))]],
                   selector))

\* two records that differ in the attrs of the environment group, and may
\* differ in the attrs of the beam group and in the model tag
TwoGroupCalls ==
    \E environment \in [1..2 -> Mappings], last \in AttrVals,
       model \in SonarModels \cup {NoneStr}, selector \in Selectors :
        Enter(Call(2, [k \in 1..2 |->
                          [FullChoice(k, IF k = 2 THEN model ELSE "EK60", "a.raw", "a.nc")
                           EXCEPT
                              !.environment = Part(environment[k], DefaultTime(k)),
                              !.beam = Part("a" :> (IF k = 2 THEN last ELSE 1),
                                            DefaultTime(k))]],
                   selector))

\* one record whose environment group has any ping times and whose beam
\* group has as many, each the earliest or the latest time
TimeCalls ==
    \E n \in 1..MaxLen :
      \E environment \in [1..n -> Times], beam \in [1..n -> {1, MaxTime}] :
        Enter(Call(1, <<[FullChoice(1, "EK60", "a.raw", "a.nc") EXCEPT
                            !.environment = Part(DefaultAttrs, environment),
                            !.platform = None,
                            !.beam = Part(DefaultAttrs, beam)]>>,
                   "override"))

\* two records of one ping each per group, in any order of time; the second
\* record's beam attrs may differ from the first's
PairCalls ==
    \E environment \in [1..2 -> Times], beam \in [1..2 -> Times],
       last \in AttrVals, selector \in Selectors :
        Enter(Call(2, [k \in 1..2 |->
                          [FullChoice(k, "EK80", "a.raw", "a.nc") EXCEPT
                              !.environment = Part(DefaultAttrs, <<environment[k]>>),
                              !.beam = Part("a" :> (IF k = 2 THEN last ELSE 1),
                                            <<beam[k]>>)]],
                   selector))

\* two records whose top and sonar groups carry ping_time; the ping times
\* of the first record, those of its top and sonar groups and those of its
\* environment group, are any
HeaderCalls ==
    \E header \in [1..2 -> Times], environment \in [1..2 -> Times] :
        Enter(Call(2, [k \in 1..2 |->
                          [FullChoice(k, "EK60", "a.raw", "a.nc") EXCEPT
                              !.top = IF k = 1 THEN header ELSE DefaultTime(k),
                              !.sonar = IF k = 1 THEN header ELSE DefaultTime(k),
                              !.environment =
                                  Part(DefaultAttrs,
                                       IF k = 1 THEN environment ELSE DefaultTime(k))]],
                   "override"))

Init ==
    \/ ModelCalls \/ OriginCalls \/ AttrsCalls \/ TwoGroupCalls \/ TimeCalls \/ PairCalls
    \/ HeaderCalls

Spec == Init /\ [][Next]_vars

----------------------------------------------------------------------------
(* qc.coerce_increasing_time applied to a sequence of its own *)

MaxSeq == 4

\* the sequence of the specification's example
ExampleTimes == <<10, 20, 15, 30>>

\* the sequences of at most MaxSeq ping times, and the example
Sequences == UNION {[1..n -> Times] : n \in 0..MaxSeq} \cup {ExampleTimes}

\* a sequence waits for its correction; no list is being combined
QcInit ==
    /\ echodatas = <<>>
    /\ combine_attrs = "override"
    /\ pc = "qc"
    /\ i = 0
    /\ sonar_model = NoneStr
    /\ gi = 0
    /\ result = EmptyEchoData
    /\ \E ping_time \in Sequences : old_ping_time = Some(ping_time)
    /\ new_ping_time = None
    /\ old_attrs = EmptyAttrs
    /\ warned = <<>>
    /\ error = NoError
    /\ returned = None

\* the correction is computed from the sequence
QcCoerce ==
    /\ pc = "qc"
    /\ new_ping_time' = Some(coerce_increasing_time(old_ping_time[1]))
    /\ pc' = "qc_done"
    /\ UNCHANGED <<echodatas, combine_attrs, i, sonar_model, gi, result, old_ping_time,
                   old_attrs, warned, error, returned>>

QcNext == QcCoerce

QcSpec == QcInit /\ [][QcNext]_vars

----------------------------------------------------------------------------
(* Properties *)

\* some record has a null model tag, or two records have different tags
Offending(records) ==
    \/ \E k \in 1..Len(records) : records[k].sonar_model = NoneStr
    \/ \E j, k \in 1..Len(records) : records[j].sonar_model # records[k].sonar_model

\* the call has ended with the ValueError of the model validation
ValidationRaised ==
    /\ pc = "raised"
    /\ error.type = "ValueError"
    /\ error.message \in {MsgNoneModel, MsgSameModel}

Ended == pc \in {"done", "raised"}

\* C1: for a non-empty list, combine raises the validation error if and only
\* if some record has a null model tag or a tag different from another
\* record's; the group loop is entered only when no record offends, and when
\* the error is raised no group of the result has been built and nothing is
\* returned.
C1_ValidationIffOffending ==
    Len(echodatas) # 0 =>
        /\ Ended => (ValidationRaised <=> Offending(echodatas))
        /\ pc \in {"groups", "finalize"} => ~Offending(echodatas)
        /\ ValidationRaised =>
              /\ result = EmptyEchoData
              /\ returned = None
              /\ gi = 0

\* a list whose last of three records is the first to offend has been refused
C1_Witness ==
    /\ ValidationRaised
    /\ Len(echodatas) = 3
    /\ i = 3
    /\ echodatas[1].sonar_model = echodatas[2].sonar_model
    /\ echodatas[3].sonar_model \in SonarModels

\* C2 (as amended): the validation error does not name a position: its
\* message tells only whether the first offending record's tag is null or
\* differs from the tags before it, and is the same at every position.
C2_MessageTellsKindOnly ==
    ValidationRaised =>
        /\ error.message = MsgNoneModel <=> echodatas[i].sonar_model = NoneStr
        /\ error.message = MsgSameModel <=> echodatas[i].sonar_model # NoneStr
        /\ \A position \in 1..Len(echodatas) :
              error = ValidationError(position, echodatas[i].sonar_model)

\* both messages occur, at a position that is not the first
C2_Witness ==
    /\ ValidationRaised
    /\ i = 2
    /\ Len(echodatas) = 3
    /\ error.message = MsgSameModel

\* C2 (as claimed): the validation error names the position of the offending
\* record, so it is not the error raised for a record at another position.
C2_ErrorNamesPosition ==
    ValidationRaised =>
        \A position \in 1..Len(echodatas) :
            position # i =>
                \A model \in SonarModels \cup {NoneStr} :
                    ValidationError(position, model) # error

\* C3: combine([]) returns a record with every group absent and raises
\* nothing, whatever the selector.
C3_EmptyListReturnsEmpty ==
    (Len(echodatas) = 0 /\ pc # "start") =>
        /\ pc = "done"
        /\ error = NoError
        /\ warned = <<>>
        /\ returned # None
        /\ \A g \in GroupNames : returned[1][g] = None

\* the empty list has been combined under a selector that is not defined
C3_Witness ==
    /\ Len(echodatas) = 0
    /\ pc = "done"
    /\ combine_attrs = UnknownPolicy

StrictlyIncreasing(seq) == \A k \in 2..Len(seq) : seq[k - 1] < seq[k]

\* the groups combine concatenates
ConcatGroups == GroupNames \ {"top", "sonar", "provenance"}

\* the positions of the records that have group g
Having(g) == {k \in 1..Len(echodatas) : echodatas[k].groups[g] # None}

\* the ping times of group g of the records from position k on, in input order
RECURSIVE InputTimeFrom(_, _)
InputTimeFrom(g, k) ==
    IF k > Len(echodatas) THEN <<>>
    ELSE (IF echodatas[k].groups[g] # None THEN echodatas[k].groups[g][1].ping_time ELSE <<>>)
         \o InputTimeFrom(g, k + 1)

InputTime(g) == InputTimeFrom(g, 1)

\* group g carries ping_time and its concatenated ping times hold an element
\* that is less than or equal to its predecessor
HasReversal(g) ==
    /\ g \in ConcatGroups
    /\ \E k \in Having(g) : echodatas[k].groups[g][1].carries_time
    /\ LET ping_time == InputTime(g)
       IN  \E k \in 2..Len(ping_time) : ping_time[k] <= ping_time[k - 1]

\* the group at index k of group_map has been through the group loop
Processed(k) == k < gi \/ (k = gi /\ pc \in {"finalize", "done"})

ReversedProcessed == {k \in 1..Len(group_map) : Processed(k) /\ HasReversal(group_map[k])}

FirstReversed == CHOOSE k \in ReversedProcessed : \A j \in ReversedProcessed : k <= j

\* C4 (as claimed): every group of the returned record that carries
\* ping_time has it strictly increasing.
C4_EveryGroupStrictlyIncreasing ==
    returned # None =>
        \A g \in GroupNames :
            (returned[1][g] # None /\ returned[1][g][1].carries_time) =>
                StrictlyIncreasing(returned[1][g][1].ping_time)

\* a record is returned whose beam group was repaired and whose provenance
\* group carries the ping times of the beam group as they were before
C4_Witness ==
    /\ pc = "done"
    /\ returned # None
    /\ warned = <<"beam">>
    /\ StrictlyIncreasing(returned[1]["beam"][1].ping_time)
    /\ returned[1]["provenance"][1].carries_time
    /\ returned[1]["provenance"][1].ping_time = InputTime("beam")
    /\ ~StrictlyIncreasing(returned[1]["provenance"][1].ping_time)

\* C5: at every point of a call the warnings emitted are: none when no group
\* processed so far has a reversal in its concatenated ping times, and
\* otherwise exactly one, for the first such group in group_map order.
C5_WarningOnceAtFirstReversal ==
    warned = IF ReversedProcessed = {} THEN <<>>
             ELSE <<group_map[FirstReversed]>>

\* the call is over, two groups held reversals and the warning was for the
\* first of them only
C5_Witness ==
    /\ pc = "done"
    /\ Cardinality(ReversedProcessed) >= 2
    /\ warned = <<"environment">>

\* C6: the returned provenance group holds as old_ping_time the concatenated
\* ping times, as they were in the inputs, of the first group with a
\* reversal, exactly when a correction was computed; otherwise it has none.
C6_OldPingTimeIsUncorrected ==
    (pc = "done" /\ Len(echodatas) # 0) =>
        LET provenance == returned[1]["provenance"][1]
        IN  /\ new_ping_time # None <=> ReversedProcessed # {}
            /\ new_ping_time # None =>
                  /\ provenance.old_ping_time = Some(InputTime(group_map[FirstReversed]))
                  /\ provenance.old_ping_time # new_ping_time
                  /\ ~StrictlyIncreasing(provenance.old_ping_time[1])
            /\ new_ping_time = None => provenance.old_ping_time = None

\* a record is returned after a correction computed for the beam group,
\* the environment group before it having no reversal
C6_Witness ==
    /\ pc = "done"
    /\ returned # None
    /\ warned = <<"beam">>
    /\ returned[1]["provenance"][1].old_ping_time # None
    /\ returned[1]["beam"][1].ping_time # returned[1]["provenance"][1].old_ping_time[1]

\* C7: for N >= 1 records the returned provenance group's src_filenames has
\* length N and holds, in input order, each record's source file, or its
\* converted path when the source file is unset; its attrs are the freshly
\* built ones, not those of an input record's provenance group.
C7_SrcFilenamesAreOrigins ==
    (pc = "done" /\ Len(echodatas) # 0) =>
        LET provenance == returned[1]["provenance"][1]
        IN  /\ Len(provenance.src_filenames) = Len(echodatas)
            /\ \A k \in 1..Len(echodatas) :
                  provenance.src_filenames[k] =
                      IF echodatas[k].source_file = NoneStr
                      THEN echodatas[k].converted_raw_path
                      ELSE echodatas[k].source_file
            /\ provenance.attrs.conversion_time = "utcnow"
            /\ \A k \in 1..Len(echodatas) :
                  provenance.attrs # echodatas[k].groups["provenance"][1].attrs

\* three records are combined, of which some have a source file and some
\* only a converted path, not all the same
C7_Witness ==
    /\ pc = "done"
    /\ Len(echodatas) = 3
    /\ echodatas[1].source_file = NoneStr
    /\ echodatas[2].source_file # NoneStr
    /\ echodatas[3].source_file = NoneStr
    /\ echodatas[1].converted_raw_path # echodatas[3].converted_raw_path

\* the attrs of group g of the record at position k
InputAttrs(g, k) == echodatas[k].groups[g][1].attrs

\* the last record, in input order, whose group g defines key
LastDefining(g, key) ==
    CHOOSE k \in Having(g) :
        /\ key \in DOMAIN InputAttrs(g, k)
        /\ \A j \in Having(g) : key \in DOMAIN InputAttrs(g, j) => j <= k

\* the call has ended with the error of xarray's attrs merge
MergeRaised == pc = "raised" /\ error.type = "MergeError"

\* C8: under "overwrite_conflicts" the attrs merge never raises, and every
\* concatenated group built has as keys the union of the keys of the attrs
\* of the records that have the group, each with the value of the last
\* record, in input order, that defines it.
C8_OverwriteConflictsLastWins ==
    combine_attrs = "overwrite_conflicts" =>
        /\ ~MergeRaised
        /\ pc = "raised" => ValidationRaised
        /\ \A k \in 1..Len(group_map) :
              LET g == group_map[k]
              IN  (Processed(k) /\ g \in ConcatGroups /\ Having(g) # {}) =>
                    /\ DOMAIN result[g][1].attrs =
                          UNION {DOMAIN InputAttrs(g, j) : j \in Having(g)}
                    /\ \A key \in DOMAIN result[g][1].attrs :
                          result[g][1].attrs[key] =
                              InputAttrs(g, LastDefining(g, key))[key]

\* three records whose environment attrs are {a: 1}, {a: 2, b: 1} and {b: 2}
\* are combined into {a: 2, b: 2}
C8_Witness ==
    /\ pc = "done"
    /\ combine_attrs = "overwrite_conflicts"
    /\ Len(echodatas) = 3
    /\ Having("environment") = {1, 2, 3}
    /\ InputAttrs("environment", 1) = ("a" :> 1)
    /\ InputAttrs("environment", 2) = ("a" :> 2) @@ ("b" :> 1)
    /\ InputAttrs("environment", 3) = ("b" :> 2)
    /\ returned[1]["environment"][1].attrs = ("a" :> 2) @@ ("b" :> 2)

\* the selected policy is violated for the attrs of group g
Violated(g, policy) ==
    CASE policy = "identical" ->
            \E j, k \in Having(g) : InputAttrs(g, j) # InputAttrs(g, k)
      [] policy = "no_conflicts" ->
            \E j, k \in Having(g) :
                \E key \in (DOMAIN InputAttrs(g, j)) \cap (DOMAIN InputAttrs(g, k)) :
                    InputAttrs(g, j)[key] # InputAttrs(g, k)[key]
      [] OTHER -> FALSE

PolicyViolated == \E g \in ConcatGroups : Violated(g, combine_attrs)

\* C9 (as amended): a call ends with the attrs conflict error exactly when
\* its list passes the model validation and the selected policy, "identical"
\* or "no_conflicts", is violated for the attrs of some concatenated group;
\* under the other selectors it never does.
C9_ConflictIffViolatedAfterValidation ==
    Ended =>
        /\ MergeRaised <=> (PolicyViolated /\ ~Offending(echodatas))
        /\ MergeRaised => combine_attrs \in {"identical", "no_conflicts"}

\* under "no_conflicts" the environment attrs differ without conflict and
\* the call is refused for the beam attrs
C9_Witness ==
    /\ MergeRaised
    /\ combine_attrs = "no_conflicts"
    /\ group = "beam"
    /\ ~Violated("environment", combine_attrs)
    /\ \E j, k \in Having("environment") :
          InputAttrs("environment", j) # InputAttrs("environment", k)

\* C9 (as claimed): a call ends with the attrs conflict error exactly when
\* the selected policy is violated for the attrs of some concatenated group.
C9_ConflictIffViolated ==
    Ended => (MergeRaised <=> PolicyViolated)

\* C10 (as claimed): a call whose selector is not one of the five defined
\* values ends with an error, whatever the list.
C10_UnknownSelectorRejected ==
    (combine_attrs \notin Policies /\ Ended) => pc = "raised"

\* the data of group g of the records from position k on, in input order
RECURSIVE InputDataFrom(_, _)
InputDataFrom(g, k) ==
    IF k > Len(echodatas) THEN <<>>
    ELSE (IF echodatas[k].groups[g] # None THEN echodatas[k].groups[g][1].data ELSE <<>>)
         \o InputDataFrom(g, k + 1)

\* the sum of the sizes of group g of the records from position k on
RECURSIVE InputSizeFrom(_, _)
InputSizeFrom(g, k) ==
    IF k > Len(echodatas) THEN 0
    ELSE (IF echodatas[k].groups[g] # None THEN Len(echodatas[k].groups[g][1].data) ELSE 0)
         + InputSizeFrom(g, k + 1)

\* C11: a group other than top, sonar and provenance that has been through
\* the group loop is absent from the result if and only if no record has it;
\* otherwise its data is the data of the records that have it, in input
\* order, and its size along the concatenation dimension is the sum of their
\* sizes. A call is refused only for its model tags, its selector or an
\* attrs conflict, never because some records lack a group.
C11_ConcatenationOfPresent ==
    /\ \A k \in 1..Len(group_map) :
          (Processed(k) /\ group_map[k] \in ConcatGroups) =>
              LET g == group_map[k]
              IN  /\ result[g] = None <=> Having(g) = {}
                  /\ result[g] # None =>
                        /\ result[g][1].data = InputDataFrom(g, 1)
                        /\ Len(result[g][1].data) = InputSizeFrom(g, 1)
    /\ pc = "raised" =>
          \/ Offending(echodatas)
          \/ combine_attrs \notin Policies
          \/ PolicyViolated

\* three records of which the second has no beam group have been combined
C11_Witness ==
    /\ pc = "done"
    /\ Len(echodatas) = 3
    /\ Having("beam") = {1, 3}
    /\ returned[1]["beam"] # None
    /\ returned[1]["beam"][1].data =
          echodatas[1].groups["beam"][1].data \o echodatas[3].groups["beam"][1].data
    /\ Len(returned[1]["beam"][1].data) = 4

\* C12: the top and sonar groups of the result are those of the first
\* record, attrs included, whatever the later records hold and whatever the
\* selector; a call whose model tags, selector and concatenated attrs are
\* accepted completes even though the top and sonar groups of its records
\* differ.
C12_TopSonarFromFirst ==
    /\ \A k \in 1..Len(group_map) :
          (Processed(k) /\ group_map[k] \in {"top", "sonar"}) =>
              result[group_map[k]] = echodatas[1].groups[group_map[k]]
    /\ (/\ Ended
        /\ Len(echodatas) # 0
        /\ ~Offending(echodatas)
        /\ combine_attrs \in Policies
        /\ ~PolicyViolated) =>
            /\ pc = "done"
            /\ \A g \in {"top", "sonar"} : returned[1][g] = echodatas[1].groups[g]

\* three records whose top and sonar attrs all differ have been combined
\* under "identical"
C12_Witness ==
    /\ pc = "done"
    /\ Len(echodatas) = 3
    /\ combine_attrs = "identical"
    /\ \A g \in {"top", "sonar"} :
          /\ \A j, k \in 1..3 :
                j # k => echodatas[j].groups[g][1].attrs # echodatas[k].groups[g][1].attrs
          /\ returned[1][g][1].attrs = echodatas[1].groups[g][1].attrs

\* C13 (as amended): a call that ends with an error returns no record, full
\* or partial. When the error is that of the model validation no group has
\* been built and no warning emitted. A warning has been emitted before the
\* error only when the error is the attrs conflict of a group that comes
\* after a group whose reversal was warned about and repaired.
C13_NoRecordOnError ==
    pc = "raised" =>
        /\ returned = None
        /\ ValidationRaised => (warned = <<>> /\ result = EmptyEchoData)
        /\ warned # <<>> =>
              /\ MergeRaised
              /\ ReversedProcessed # {}
              /\ warned = <<group_map[FirstReversed]>>
              /\ FirstReversed < gi

\* the reversal of the environment group has been warned about and the call
\* then refused for the beam attrs
C13_Witness ==
    /\ pc = "raised"
    /\ MergeRaised
    /\ group = "beam"
    /\ warned = <<"environment">>
    /\ result["environment"] # None
    /\ returned = None

\* C13 (as claimed): in a call that ends with an error no warning has been
\* emitted and no record is returned.
C13_NoOutputBeforeError ==
    pc = "raised" => (warned = <<>> /\ returned = None)

\* C15: the correction of a sequence has the length of the sequence and is
\* strictly increasing, so that no reversal is detected in it; the sequence
\* given is left as it was; and a sequence that is strictly increasing
\* already is returned as it is.
C15_CorrectedStrictlyIncreasing ==
    [][(pc = "qc" /\ pc' = "qc_done") =>
          /\ old_ping_time' = old_ping_time
          /\ Len(new_ping_time'[1]) = Len(old_ping_time[1])
          /\ StrictlyIncreasing(new_ping_time'[1])
          /\ ~exist_reversed_time(new_ping_time'[1])
          /\ StrictlyIncreasing(old_ping_time[1]) => new_ping_time'[1] = old_ping_time[1]]_vars

\* a sequence of four ping times with a repeated and a decreasing element
\* has been corrected
C15_Witness ==
    /\ pc = "qc_done"
    /\ old_ping_time = Some(<<1, 1, 3, 2>>)
    /\ Len(new_ping_time[1]) = 4
    /\ new_ping_time[1] # old_ping_time[1]
    /\ \A k \in 2..4 : new_ping_time[1][k - 1] < new_ping_time[1][k]

\* C16: in the correction, the first element is the sequence's; at every
\* index where a reversal is found, the first as well as a later one met
\* with an offset already in force, the corrected value is the previous
\* corrected value plus one increment; at every other index the offset of the
\* previous index is added unchanged. The sequence 10, 20, 15, 30 becomes
\* 10, 20, 21, 36.
C16_OneIncrementAtEachReversal ==
    pc = "qc_done" =>
        LET raw == old_ping_time[1]
            out == new_ping_time[1]
        IN  /\ Len(out) = Len(raw)
            /\ Len(raw) > 0 => out[1] = raw[1]
            /\ \A k \in 2..Len(raw) :
                  LET offset == out[k - 1] - raw[k - 1]
                  IN  IF raw[k] + offset <= out[k - 1]
                      THEN out[k] = out[k - 1] + 1
                      ELSE out[k] = raw[k] + offset
            /\ raw = ExampleTimes => out = <<10, 20, 21, 36>>

\* a sequence with a second reversal, met with an offset of two in force,
\* has been corrected
C16_Witness ==
    /\ pc = "qc_done"
    /\ old_ping_time = Some(<<2, 1, 1, 3>>)
    /\ new_ping_time = Some(<<2, 3, 4, 6>>)

\* the concatenated groups that carry ping_time, are in the result, and went
\* through the group loop after the first group with a reversal
TimedAfterFirstReversed ==
    LET reversed == ReversedProcessed
    IN  IF reversed = {} THEN {}
        ELSE LET first == CHOOSE k \in reversed : \A j \in reversed : k <= j
             IN  {k \in (first + 1)..Len(group_map) :
                     /\ Processed(k)
                     /\ group_map[k] \in ConcatGroups
                     /\ result[group_map[k]] # None
                     /\ result[group_map[k]][1].carries_time}

\* C17 (as amended): once a correction has been computed for a group, the
\* reversal test is still run on every later group that carries ping_time;
\* a later group whose own concatenated ping times hold a reversal gets the
\* cached corrected ping times, the repair not being run again, and a later
\* group without reversal keeps its own concatenated ping times.
C17_CachedCorrectionForReversedOnly ==
    \A k \in TimedAfterFirstReversed :
        LET g == group_map[k]
        IN  /\ new_ping_time # None
            /\ new_ping_time[1] = result[group_map[FirstReversed]][1].ping_time
            /\ IF HasReversal(g)
               THEN result[g][1].ping_time = new_ping_time[1]
               ELSE result[g][1].ping_time = InputTime(g)

\* after the repair of the environment group, the platform group, without
\* reversal, has kept its ping times, and the beam group, with a reversal of
\* its own, has received the ping times computed for the environment group
C17_Witness ==
    /\ pc = "done"
    /\ warned = <<"environment">>
    /\ ~HasReversal("platform")
    /\ returned[1]["platform"] # None
    /\ returned[1]["platform"][1].ping_time = InputTime("platform")
    /\ returned[1]["platform"][1].ping_time # returned[1]["environment"][1].ping_time
    /\ HasReversal("beam")
    /\ InputTime("beam") # InputTime("environment")
    /\ returned[1]["beam"][1].ping_time = returned[1]["environment"][1].ping_time
    /\ returned[1]["beam"][1].ping_time # coerce_increasing_time(InputTime("beam"))

\* C17 (as claimed): once a correction has been computed for a group, every
\* group processed afterwards that carries ping_time has the cached corrected
\* ping times, so that all such groups share one time axis.
C17_LaterGroupsShareCorrection ==
    \A k \in TimedAfterFirstReversed :
        result[group_map[k]][1].ping_time = new_ping_time[1]

\* the attrs of group g of the records from position k on, in input order
RECURSIVE InputAttrsFrom(_, _)
InputAttrsFrom(g, k) ==
    IF k > Len(echodatas) THEN <<>>
    ELSE (IF echodatas[k].groups[g] # None THEN <<echodatas[k].groups[g][1].attrs>> ELSE <<>>)
         \o InputAttrsFrom(g, k + 1)

\* C18: the provenance group of a returned record has the variable
\* "<group>_attrs" exactly for the groups other than top, sonar and
\* provenance that more than one record has, and the variable lists the attrs
\* those records had for the group before the merge, in input order.
C18_GroupAttrsIffSeveralContributors ==
    (pc = "done" /\ Len(echodatas) # 0) =>
        LET group_attrs == returned[1]["provenance"][1].group_attrs
        IN  /\ DOMAIN group_attrs =
                  {g \o "_attrs" : g \in {h \in ConcatGroups : Cardinality(Having(h)) > 1}}
            /\ \A g \in ConcatGroups :
                  Cardinality(Having(g)) > 1 =>
                      group_attrs[g \o "_attrs"] = InputAttrsFrom(g, 1)

\* three records with three different environment attrs have been combined
\* under "overwrite_conflicts"
C18_Witness ==
    /\ pc = "done"
    /\ Len(echodatas) = 3
    /\ combine_attrs = "overwrite_conflicts"
    /\ Having("environment") = {1, 2, 3}
    /\ Cardinality({InputAttrs("environment", k) : k \in 1..3}) = 3
    /\ returned[1]["provenance"][1].group_attrs["environment_attrs"] =
          <<InputAttrs("environment", 1), InputAttrs("environment", 2),
            InputAttrs("environment", 3)>>
    /\ returned[1]["environment"][1].attrs # InputAttrs("environment", 1)
    /\ "top_attrs" \notin DOMAIN returned[1]["provenance"][1].group_attrs

====
